---- MODULE Spec2Model ----
(***************************************************************************)
(* Model of the Document Text Extractor server: the in-memory document     *)
(* store (server/storage.ts), the upload pipeline and the lookup route     *)
(* (server/routes.ts), the form schema (shared/schema.ts) and the global   *)
(* error middleware (server/index.ts).                                     *)
(*                                                                         *)
(* JavaScript runs each handler to completion between awaits, so one       *)
(* action is one synchronous stretch of a handler.                         *)
(***************************************************************************)
EXTENDS Integers, Sequences, FiniteSets, TLC

(***************************************************************************)
(* Bounds of the model.                                                    *)
(***************************************************************************)
\* uploads the concurrent server accepts during one run, all of which can be
\* in flight at once (Spec)
MaxUploads == 2
\* uploads accepted during one run of the one-at-a-time server (SpecUpload)
MaxSeqUploads == 2
\* days the clock can advance during one run
MaxTicks == 1
\* days before and after each anchor date given to calculateAge
AgeWindow == 2
\* upload requests the page sends during one run
MaxSubmits == 2

(***************************************************************************)
(* Calendar and JavaScript Date.                                           *)
(***************************************************************************)
IsLeap(y) == (y % 4 = 0 /\ y % 100 # 0) \/ y % 400 = 0

DaysInMonth(y, m) ==
    IF m = 2 THEN (IF IsLeap(y) THEN 29 ELSE 28)
    ELSE IF m \in {4, 6, 9, 11} THEN 30 ELSE 31

\* a calendar date is <<year, month (1..12), day>>
PrevDay(d) ==
    IF d[3] > 1 THEN <<d[1], d[2], d[3] - 1>>
    ELSE IF d[2] > 1 THEN <<d[1], d[2] - 1, DaysInMonth(d[1], d[2] - 1)>>
    ELSE <<d[1] - 1, 12, 31>>

NextDay(d) ==
    IF d[3] < DaysInMonth(d[1], d[2]) THEN <<d[1], d[2], d[3] + 1>>
    ELSE IF d[2] < 12 THEN <<d[1], d[2] + 1, 1>>
    ELSE <<d[1] + 1, 1, 1>>

RECURSIVE AddDays(_, _)
AddDays(d, n) == IF n = 0 THEN d ELSE AddDays(NextDay(d), n - 1)

RECURSIVE SubDays(_, _)
SubDays(d, n) == IF n = 0 THEN d ELSE SubDays(PrevDay(d), n - 1)

\* strings that are parsed character by character are tuples of characters
DigitVal ==
    "0" :> 0 @@ "1" :> 1 @@ "2" :> 2 @@ "3" :> 3 @@ "4" :> 4 @@
    "5" :> 5 @@ "6" :> 6 @@ "7" :> 7 @@ "8" :> 8 @@ "9" :> 9

IsDigit(c) == c \in DOMAIN DigitVal

DigitChar == <<"0", "1", "2", "3", "4", "5", "6", "7", "8", "9">>

\* the characters of n written with w digits, zero padded
RECURSIVE Digits(_, _)
Digits(n, w) ==
    IF w = 0 THEN <<>> ELSE Append(Digits(n \div 10, w - 1), DigitChar[(n % 10) + 1])

\* the YYYY-MM-DD string of a date
IsoString(y, m, d) == Digits(y, 4) \o <<"-">> \o Digits(m, 2) \o <<"-">> \o Digits(d, 2)

Num2(s, i) == 10 * DigitVal[s[i]] + DigitVal[s[i + 1]]
Num4(s, i) == 100 * Num2(s, i) + Num2(s, i + 2)

\* s has the date-only ISO form and names a day of the calendar
IsIsoDate(s) ==
    /\ Len(s) = 10
    /\ s[5] = "-" /\ s[8] = "-"
    /\ \A i \in {1, 2, 3, 4, 6, 7, 9, 10} : IsDigit(s[i])
    /\ Num2(s, 6) \in 1..12
    /\ Num2(s, 9) \in 1..DaysInMonth(Num4(s, 1), Num2(s, 6))

InvalidDate == [valid |-> FALSE, utc |-> <<0, 0, 0>>]

\* new Date(s): a date-only ISO string is midnight UTC of that day; the other
\* strings the model submits are ones the engine cannot parse (Invalid Date)
NewDate(s) ==
    IF IsIsoDate(s)
    THEN [valid |-> TRUE, utc |-> <<Num4(s, 1), Num2(s, 6), Num2(s, 9)>>]
    ELSE InvalidDate

\* the local calendar day of midnight UTC: the day before, west of Greenwich
LocalDay(utc, west) == IF west THEN PrevDay(utc) ELSE utc

\* JavaScript numbers that can be NaN
Num(n) == [nan |-> FALSE, val |-> n]
NaN == [nan |-> TRUE, val |-> 0]

(***************************************************************************)
(* routes.ts: calculateAge.  today is the local calendar day of new Date().*)
(***************************************************************************)
calculateAge(dateOfBirth, today, west) ==
    LET birthDate == NewDate(dateOfBirth)
        birth == LocalDay(birthDate.utc, west)
        age == today[1] - birth[1]
        monthDiff == today[2] - birth[2]
    IN  IF ~birthDate.valid THEN NaN
        ELSE IF monthDiff < 0 \/ (monthDiff = 0 /\ today[3] < birth[3])
             THEN Num(age - 1)
             ELSE Num(age)

(***************************************************************************)
(* Values of the model.                                                    *)
(***************************************************************************)
\* the JavaScript value undefined
undefined == [undefined |-> TRUE]

\* a MIME type "type/subtype" is the pair <<type, subtype>>
Pdf == <<"application", "pdf">>
Jpeg == <<"image", "jpeg">>
Jpg == <<"image", "jpg">>
Png == <<"image", "png">>
Gif == <<"image", "gif">>
Plain == <<"text", "plain">>

\* the local calendar day on which the server starts
StartDate == <<2024, 3, 14>>

Fields == <<"firstName", "lastName", "dateOfBirth">>

VARIABLES
    west,       \* the server's time zone is west of Greenwich
    clock,      \* days elapsed since StartDate
    documents,  \* MemStorage.documents: id -> ProcessedDocument
    currentId,  \* MemStorage.currentId
    arrivals,   \* number of upload requests received so far
    pc,         \* per request slot: "idle", "extracting", "created", "done"
    seq,        \* per slot: arrival number of the request it holds
    input,      \* per slot: the request (req.file, req.body)
    local,      \* per slot: the handler's locals (validatedData, document)
    invoked,    \* per slot: the extraction capabilities invoked, in order
    trace,      \* per slot: the steps of the pipeline executed, in order
    res,        \* per slot: the responses sent, in order
    calls,      \* the createDocument calls made so far, in order
    lastGet,    \* the last GET /api/document/:id and its response
    fnArgs,     \* the arguments of a function called on its own
    fnResult,   \* what that call has done and returned so far
    client      \* the state of the upload page in the browser

vars == <<west, clock, documents, currentId, arrivals, pc, seq, input, local,
          invoked, trace, res, calls, lastGet, fnArgs, fnResult, client>>

\* everything but the upload page
serverVars == <<west, clock, documents, currentId, arrivals, pc, seq, input, local,
                invoked, trace, res, calls, lastGet, fnArgs, fnResult>>

Slots == 1..MaxUploads

Today == AddDays(StartDate, clock)

(***************************************************************************)
(* storage.ts: MemStorage.                                                 *)
(***************************************************************************)
\* constructor
MemStorageInit == [documents |-> <<>>, currentId |-> 1]

\* variants of createDocument with a slip in the id or the map
createDocumentPreIncrement(docs, cur, insertDocument, now) ==
    LET id == cur + 1
        document == [k \in DOMAIN insertDocument \cup {"id", "createdAt"} |->
                        IF k = "id" THEN id
                        ELSE IF k = "createdAt" THEN now
                        ELSE insertDocument[k]]
    IN  [documents |-> [k \in DOMAIN docs \cup {id} |->
                            IF k = id THEN document ELSE docs[k]],
         currentId |-> cur + 1,
         document |-> document]

createDocumentNoIncrement(docs, cur, insertDocument, now) ==
    LET id == cur
        document == [k \in DOMAIN insertDocument \cup {"id", "createdAt"} |->
                        IF k = "id" THEN id
                        ELSE IF k = "createdAt" THEN now
                        ELSE insertDocument[k]]
    IN  [documents |-> [k \in DOMAIN docs \cup {id} |->
                            IF k = id THEN document ELSE docs[k]],
         currentId |-> cur,
         document |-> document]

createDocumentFreshMap(docs, cur, insertDocument, now) ==
    LET id == cur
        document == [k \in DOMAIN insertDocument \cup {"id", "createdAt"} |->
                        IF k = "id" THEN id
                        ELSE IF k = "createdAt" THEN now
                        ELSE insertDocument[k]]
    IN  [documents |-> [k \in {id} |-> document],
         currentId |-> cur + 1,
         document |-> document]

\* variant of createDocument that stores the record under the incremented counter
createDocumentKeyAfterIncrement(docs, cur, insertDocument, now) ==
    LET id == cur
        document == [k \in DOMAIN insertDocument \cup {"id", "createdAt"} |->
                        IF k = "id" THEN id
                        ELSE IF k = "createdAt" THEN now
                        ELSE insertDocument[k]]
    IN  [documents |-> [k \in DOMAIN docs \cup {id + 1} |->
                            IF k = id + 1 THEN document ELSE docs[k]],
         currentId |-> cur + 1,
         document |-> document]

\* createDocument: no await between reading the counter and Map.set, so the
\* body runs as one step.  Returns the new fields of the store and the document.
createDocument(docs, cur, insertDocument, now) ==
    LET id == cur
        document == [k \in DOMAIN insertDocument \cup {"id", "createdAt"} |->
                        IF k = "id" THEN id
                        ELSE IF k = "createdAt" THEN now
                        ELSE insertDocument[k]]
    IN  [documents |-> [k \in DOMAIN docs \cup {id} |->
                            IF k = id THEN document ELSE docs[k]],
         currentId |-> cur + 1,
         document |-> document]

\* variant of getDocument with a slip in the key
getDocumentOffByOne(docs, id) ==
    IF id + 1 \in DOMAIN docs THEN docs[id + 1] ELSE undefined

\* getDocument: Map.get
getDocument(docs, id) == IF id \in DOMAIN docs THEN docs[id] ELSE undefined

(***************************************************************************)
(* routes.ts: the multer middleware upload.single('file').                 *)
(***************************************************************************)
allowedTypes == {Jpeg, Jpg, Png, Pdf}

\* variant of the limit counted in decimal megabytes
fileSizeDecimal == 10 * 1000 * 1000

fileSize == 10 * 1024 * 1024

\* variant of the fileFilter that lets every image type through
MulterOutcomeImagePrefix(file) ==
    IF file = undefined THEN [ok |-> TRUE]
    ELSE IF file.mimetype # Pdf /\ file.mimetype[1] # "image"
    THEN [ok |-> FALSE,
          error |-> [message |-> "Invalid file type. Only PDF and images (JPG, PNG) are allowed."]]
    ELSE IF file.size > fileSize
    THEN [ok |-> FALSE, error |-> [message |-> "File too large", code |-> "LIMIT_FILE_SIZE"]]
    ELSE [ok |-> TRUE]

\* fileFilter runs on the part's headers, the size limit while its bytes stream
MulterOutcome(file) ==
    IF file = undefined THEN [ok |-> TRUE]
    ELSE IF file.mimetype \notin allowedTypes
    THEN [ok |-> FALSE,
          error |-> [message |-> "Invalid file type. Only PDF and images (JPG, PNG) are allowed."]]
    ELSE IF file.size > fileSize
    THEN [ok |-> FALSE, error |-> [message |-> "File too large", code |-> "LIMIT_FILE_SIZE"]]
    ELSE [ok |-> TRUE]

\* index.ts: the global error middleware answers what a middleware passed to next
GlobalErrorHandler(err) ==
    LET status == IF "status" \in DOMAIN err THEN err.status
                  ELSE IF "statusCode" \in DOMAIN err THEN err.statusCode
                  ELSE 500
        message == IF err.message # "" THEN err.message ELSE "Internal Server Error"
    IN  [status |-> status, body |-> [message |-> message]]

\* variant of the rethrow whose error is answered a second time
RethrowAnswersAgain(headersSent, err) ==
    <<[status |-> 500, body |-> [message |-> err.message]]>>

\* throw err after res.json: express catches it and hands it to its default
\* handler, which answers only a request whose response has not been started
\* and otherwise closes the connection; the responses this adds
Rethrow(headersSent, err) ==
    IF headersSent THEN <<>>
    ELSE <<[status |-> 500, body |-> [message |-> err.message]]>>

(***************************************************************************)
(* shared/schema.ts: uploadSchema.                                         *)
(***************************************************************************)
RequiredMessage ==
    "firstName" :> "First name is required" @@
    "lastName" :> "Last name is required" @@
    "dateOfBirth" :> "Date of birth is required"

\* z.string().min(1, message) on one field of the body
FieldIssues(body, f) ==
    IF f \notin DOMAIN body
    THEN <<[path |-> f, code |-> "invalid_type", message |-> "Required"]>>
    ELSE IF Len(body[f]) < 1
    THEN <<[path |-> f, code |-> "too_small", message |-> RequiredMessage[f]]>>
    ELSE <<>>

\* variant that stops at the first field with an issue
uploadSchemaParseFirstOnly(body) ==
    LET errors == FieldIssues(body, Fields[1]) \o FieldIssues(body, Fields[2])
                    \o FieldIssues(body, Fields[3])
    IN  IF errors = <<>>
        THEN [success |-> TRUE,
              data |-> [firstName |-> body.firstName, lastName |-> body.lastName,
                        dateOfBirth |-> body.dateOfBirth]]
        ELSE [success |-> FALSE, errors |-> <<errors[1]>>]

\* uploadSchema.parse: every field is checked, the issues come in schema order
uploadSchemaParse(body) ==
    LET errors == FieldIssues(body, Fields[1]) \o FieldIssues(body, Fields[2])
                    \o FieldIssues(body, Fields[3])
    IN  IF errors = <<>>
        THEN [success |-> TRUE,
              data |-> [firstName |-> body.firstName, lastName |-> body.lastName,
                        dateOfBirth |-> body.dateOfBirth]]
        ELSE [success |-> FALSE, errors |-> errors]

(***************************************************************************)
(* routes.ts: extractTextFromFile.                                         *)
(***************************************************************************)
\* the capability the dispatch on file.mimetype invokes
ExtractorBranch(mimetype) ==
    IF mimetype = Pdf THEN "pdfParse"
    ELSE IF mimetype[1] = "image" THEN "Tesseract"
    ELSE "unsupported"

\* variant of the rethrow that drops the cause
ExtractionErrorNoDetail(message) == [message |-> "Text extraction failed"]

\* catch (error) { throw new Error(`Text extraction failed: ${error.message}`) }
ExtractionError(message) == [message |-> "Text extraction failed: " \o message]

\* extractTextFromFile up to its first await or throw: the capability it calls
\* with its arguments, or the error of the else branch as the catch rethrows it
extractTextFromFile(file) ==
    LET branch == ExtractorBranch(file.mimetype)
    IN  IF branch = "pdfParse"
        THEN [event |-> "invoke", capability |-> "pdfParse", lang |-> ""]
        ELSE IF branch = "Tesseract"
        THEN [event |-> "invoke", capability |-> "Tesseract", lang |-> "eng"]
        ELSE [event |-> "throw", error |-> ExtractionError("Unsupported file type")]

(***************************************************************************)
(* parseInt(string) without a radix, on a tuple of characters.             *)
(***************************************************************************)
HexVal ==
    DigitVal @@ "a" :> 10 @@ "b" :> 11 @@ "c" :> 12 @@ "d" :> 13 @@ "e" :> 14 @@
    "f" :> 15 @@ "A" :> 10 @@ "B" :> 11 @@ "C" :> 12 @@ "D" :> 13 @@ "E" :> 14 @@
    "F" :> 15

RECURSIVE StripLeadingSpace(_)
StripLeadingSpace(s) ==
    IF s # <<>> /\ s[1] = " " THEN StripLeadingSpace(Tail(s)) ELSE s

DigitOf(c, radix) ==
    IF c \in DOMAIN HexVal /\ HexVal[c] < radix THEN HexVal[c] ELSE -1

\* the value of the longest prefix of s made of digits of the radix, or -1
RECURSIVE PrefixValue(_, _, _)
PrefixValue(s, radix, acc) ==
    IF s = <<>> \/ DigitOf(s[1], radix) < 0 THEN acc
    ELSE PrefixValue(Tail(s), radix,
                     (IF acc < 0 THEN 0 ELSE acc * radix) + DigitOf(s[1], radix))

parseInt(string) ==
    LET t == StripLeadingSpace(string)
        signed == t # <<>> /\ t[1] \in {"+", "-"}
        sign == IF signed /\ t[1] = "-" THEN -1 ELSE 1
        u == IF signed THEN Tail(t) ELSE t
        hex == Len(u) >= 2 /\ u[1] = "0" /\ u[2] \in {"x", "X"}
        v == IF hex THEN PrefixValue(SubSeq(u, 3, Len(u)), 16, -1)
             ELSE PrefixValue(u, 10, -1)
    IN  IF v < 0 THEN NaN ELSE Num(sign * v)

(***************************************************************************)
(* routes.ts: GET /api/document/:id.                                       *)
(***************************************************************************)
\* variant without the check of what the store returned
GetDocumentRouteNoCheck(docs, segment) ==
    LET id == parseInt(segment)
    IN  IF id.nan
        THEN [status |-> 400, body |-> [message |-> "Invalid document ID"],
              lookedUp |-> FALSE]
        ELSE [status |-> 200, body |-> getDocument(docs, id.val), lookedUp |-> TRUE]

GetDocumentRoute(docs, segment) ==
    LET id == parseInt(segment)
    IN  IF id.nan
        THEN [status |-> 400, body |-> [message |-> "Invalid document ID"],
              lookedUp |-> FALSE]
        ELSE LET document == getDocument(docs, id.val)
             IN  IF document = undefined
                 THEN [status |-> 404, body |-> [message |-> "Document not found"],
                       lookedUp |-> TRUE]
                 ELSE [status |-> 200, body |-> document, lookedUp |-> TRUE]

(***************************************************************************)
(* routes.ts: POST /api/upload, from the request to the first await.       *)
(***************************************************************************)
\* error is the exception extractTextFromFile caught from its capability
NoLocals == [validatedData |-> undefined, extractedText |-> undefined,
             document |-> undefined, error |-> undefined]

\* variant that validates the form before it looks for the file
UploadStartValidateFirst(file, body) ==
    LET parsed == uploadSchemaParse(body)
    IN  IF ~parsed.success
        THEN [pc |-> "done", trace |-> <<"validate">>,
              invoked |-> <<>>, local |-> NoLocals,
              res |-> <<[status |-> 400,
                         body |-> [message |-> "Invalid form data",
                                   errors |-> parsed.errors]]>>]
        ELSE IF file = undefined
        THEN [pc |-> "done", trace |-> <<"validate", "fileCheck">>, invoked |-> <<>>,
              local |-> NoLocals,
              res |-> <<[status |-> 400, body |-> [message |-> "No file uploaded"]]>>]
        ELSE IF ExtractorBranch(file.mimetype) = "unsupported"
        THEN [pc |-> "done", trace |-> <<"validate", "fileCheck", "extract">>,
              invoked |-> <<>>, local |-> NoLocals,
              res |-> <<[status |-> 500,
                         body |-> ExtractionError("Unsupported file type")]>>]
        ELSE [pc |-> "extracting",
              trace |-> <<"validate", "fileCheck", "extract">>,
              invoked |-> <<ExtractorBranch(file.mimetype)>>,
              local |-> [NoLocals EXCEPT !.validatedData = parsed.data],
              res |-> <<>>]

\* the handler's synchronous start: file check, uploadSchema.parse and the call
\* of extractTextFromFile, with the catch block's answers to what they throw
UploadStart(file, body) ==
    IF file = undefined
    THEN [pc |-> "done", trace |-> <<"fileCheck">>, invoked |-> <<>>,
          local |-> NoLocals,
          res |-> <<[status |-> 400, body |-> [message |-> "No file uploaded"]]>>]
    ELSE LET parsed == uploadSchemaParse(body)
         IN  IF ~parsed.success
             THEN [pc |-> "done", trace |-> <<"fileCheck", "validate">>,
                   invoked |-> <<>>, local |-> NoLocals,
                   res |-> <<[status |-> 400,
                              body |-> [message |-> "Invalid form data",
                                        errors |-> parsed.errors]]>>]
             ELSE IF ExtractorBranch(file.mimetype) = "unsupported"
             THEN [pc |-> "done", trace |-> <<"fileCheck", "validate", "extract">>,
                   invoked |-> <<>>, local |-> NoLocals,
                   res |-> <<[status |-> 500,
                              body |-> ExtractionError("Unsupported file type")]>>]
             ELSE [pc |-> "extracting",
                   trace |-> <<"fileCheck", "validate", "extract">>,
                   invoked |-> <<ExtractorBranch(file.mimetype)>>,
                   local |-> [NoLocals EXCEPT !.validatedData = parsed.data],
                   res |-> <<>>]

\* the request as express sees it: multer first, then the handler or, when
\* multer passed an error to next, the global error middleware
UploadRequest(file, body) ==
    LET m == MulterOutcome(file)
    IN  IF m.ok THEN UploadStart(file, body)
        ELSE [pc |-> "done", trace |-> <<>>, invoked |-> <<>>, local |-> NoLocals,
              res |-> <<GlobalErrorHandler(m.error)>> \o Rethrow(TRUE, m.error)]

\* variant of the derivation that joins the names without the space
BuildInsertNoSpace(file, validatedData, extractedText, today, tzWest) ==
    [firstName |-> validatedData.firstName,
     lastName |-> validatedData.lastName,
     dateOfBirth |-> validatedData.dateOfBirth,
     fullName |-> validatedData.firstName \o validatedData.lastName,
     age |-> calculateAge(validatedData.dateOfBirth, today, tzWest),
     extractedText |-> extractedText,
     fileName |-> file.originalname,
     fileType |-> file.mimetype]

\* the InsertDocument the handler builds once extraction has resolved
BuildInsert(file, validatedData, extractedText, today, tzWest) ==
    [firstName |-> validatedData.firstName,
     lastName |-> validatedData.lastName,
     dateOfBirth |-> validatedData.dateOfBirth,
     fullName |-> validatedData.firstName \o " " \o validatedData.lastName,
     age |-> calculateAge(validatedData.dateOfBirth, today, tzWest),
     extractedText |-> extractedText,
     fileName |-> file.originalname,
     fileType |-> file.mimetype]

\* variant of the success response that sends the whole record
UploadResponseFull(document) == [status |-> 200, body |-> document]

\* res.json of the success path
UploadResponse(document) ==
    [status |-> 200,
     body |-> [id |-> document.id, fullName |-> document.fullName,
               age |-> document.age, extractedText |-> document.extractedText,
               fileName |-> document.fileName, fileType |-> document.fileType]]

\* the catch block's answer to an error that is no ZodError
UploadFailure(error) ==
    [status |-> 500,
     body |-> [message |-> IF error.message # "" THEN error.message
                           ELSE "Failed to process document"]]

(***************************************************************************)
(* The requests and the outcomes of the external capabilities.             *)
(***************************************************************************)
File(mimetype, size, originalname) ==
    [mimetype |-> mimetype, size |-> size, originalname |-> originalname]

\* req.body holding the fields of the set present
Body(present, firstName, lastName, dateOfBirth) ==
    [k \in present |->
        IF k = "firstName" THEN firstName
        ELSE IF k = "lastName" THEN lastName
        ELSE dateOfBirth]

AllFields == {"firstName", "lastName", "dateOfBirth"}

Upload(file, body) == [file |-> file, body |-> body]

NotADate == <<"n", "/", "a">>

\* the uploads of the concurrent server
StoreUploads ==
    { Upload(File(Pdf, 2048, "passport.pdf"),
             Body(AllFields, "John", "Doe", IsoString(1994, 1, 1))),
      Upload(File(Png, fileSize, "card.png"),
             Body(AllFields, "Ann", "Lee", IsoString(2000, 3, 15))),
      Upload(undefined, Body(AllFields, "", "Doe", IsoString(1994, 1, 1))) }

\* the uploads of the one-at-a-time server: every file with every body
Mimes == allowedTypes \cup {Gif, Plain}

UploadFiles ==
    {undefined} \cup { File(m, sz, "scan") : m \in Mimes, sz \in {fileSize, fileSize + 1} }

UploadBodies ==
    { Body(present, f, l, d) :
        present \in SUBSET AllFields, f \in {"", "John"}, l \in {"", "Doe"},
        d \in {<<>>, IsoString(1994, 1, 1), NotADate} }

AllUploads == { Upload(file, body) : file \in UploadFiles, body \in UploadBodies }

\* what pdf-parse and Tesseract can answer
Texts == {"", "ID 42"}
CapabilityErrors == {"bad XRef entry", "Error attempting to read image."}

\* the :id path segments asked for
Segments ==
    { <<"1">>, <<"2">>, <<"0">>, <<"-", "1">>, <<"9">>, <<"a", "b", "c">>,
      <<"1", "2", "a", "b", "c">>, <<"1", ".", "5">>, <<"0", "x", "1", "0">> }

(***************************************************************************)
(* The state machine.                                                      *)
(***************************************************************************)
(***************************************************************************)
(* client/src/pages/upload.tsx: the upload page.                           *)
(***************************************************************************)
\* the JavaScript value null
null == [null |-> TRUE]

\* a File of the browser
ClientFile(type, size, name) == [type |-> type, size |-> size, name |-> name]

clientAllowedTypes == {Pdf, Jpeg, Jpg, Png}
clientMaxSize == 10 * 1024 * 1024

\* the page as first rendered; request is the last upload request sent and
\* lastSelect the last call of handleFileSelect with the selection around it
UploadPage ==
    [selectedFile |-> null,
     isDragOver |-> FALSE,
     form |-> [firstName |-> "", lastName |-> "", dateOfBirth |-> <<>>],
     isPending |-> FALSE,
     location |-> "/",
     toast |-> "",
     submits |-> 0,
     request |-> undefined,
     lastSelect |-> undefined]

\* variant of handleFileSelect without the size test
handleFileSelectAnySize(page, file) ==
    LET after == IF file.type \notin clientAllowedTypes
                 THEN [page EXCEPT !.toast = "Invalid file type"]
                 ELSE [page EXCEPT !.selectedFile = file]
    IN  [after EXCEPT !.lastSelect = [file |-> file, before |-> page.selectedFile,
                                      after |-> after.selectedFile]]

\* handleFileSelect: the page after the call
handleFileSelect(page, file) ==
    LET after == IF file.type \notin clientAllowedTypes
                 THEN [page EXCEPT !.toast = "Invalid file type"]
                 ELSE IF file.size > clientMaxSize
                 THEN [page EXCEPT !.toast = "File too large"]
                 ELSE [page EXCEPT !.selectedFile = file]
    IN  [after EXCEPT !.lastSelect = [file |-> file, before |-> page.selectedFile,
                                      after |-> after.selectedFile]]

\* the server after construction, with the given standalone call pending
ServerInit(args) ==
    /\ west \in BOOLEAN
    /\ clock = 0
    /\ documents = MemStorageInit.documents
    /\ currentId = MemStorageInit.currentId
    /\ arrivals = 0
    /\ pc = [r \in Slots |-> "idle"]
    /\ seq = [r \in Slots |-> 0]
    /\ input = [r \in Slots |-> undefined]
    /\ local = [r \in Slots |-> NoLocals]
    /\ invoked = [r \in Slots |-> <<>>]
    /\ trace = [r \in Slots |-> <<>>]
    /\ res = [r \in Slots |-> <<>>]
    /\ calls = <<>>
    /\ lastGet = undefined
    /\ fnArgs = args
    /\ fnResult = <<>>
    /\ client = UploadPage

Init == ServerInit(undefined)

\* a POST /api/upload arrives on a free slot and runs up to its first await
PostUpload(r, in, limit) ==
    /\ arrivals < limit
    /\ pc[r] = "idle"
    /\ arrivals' = arrivals + 1
    /\ seq' = [seq EXCEPT ![r] = arrivals + 1]
    /\ input' = [input EXCEPT ![r] = in]
    /\ LET o == UploadRequest(in.file, in.body)
       IN  /\ pc' = [pc EXCEPT ![r] = o.pc]
           /\ trace' = [trace EXCEPT ![r] = o.trace]
           /\ invoked' = [invoked EXCEPT ![r] = o.invoked]
           /\ local' = [local EXCEPT ![r] = o.local]
           /\ res' = [res EXCEPT ![r] = o.res]
    /\ UNCHANGED <<west, clock, documents, currentId, calls, lastGet,
                   fnArgs, fnResult, client>>

\* the capability answers text: the handler resumes, derives age and fullName
\* and calls createDocument, all in one synchronous stretch (its two new Date()
\* read the same day)
\* variant of the success path that treats an empty text as a failure
ExtractionResolvesRejectEmpty(r, text) ==
    /\ pc[r] = "extracting"
    /\ IF text = ""
       THEN /\ pc' = [pc EXCEPT ![r] = "done"]
            /\ res' = [res EXCEPT ![r] =
                          Append(@, UploadFailure(ExtractionError("no text found")))]
            /\ UNCHANGED <<documents, currentId, local, calls, trace>>
       ELSE /\ LET insertDocument == BuildInsert(input[r].file, local[r].validatedData,
                                                 text, Today, west)
                   c == createDocument(documents, currentId, insertDocument, Today)
               IN  /\ documents' = c.documents
                   /\ currentId' = c.currentId
                   /\ local' = [local EXCEPT ![r].extractedText = text,
                                             ![r].document = c.document]
                   /\ calls' = Append(calls, [seq |-> seq[r], before |-> currentId,
                                              document |-> c.document])
            /\ pc' = [pc EXCEPT ![r] = "created"]
            /\ trace' = [trace EXCEPT ![r] = @ \o <<"calculateAge", "createDocument">>]
            /\ UNCHANGED res
    /\ UNCHANGED <<west, clock, arrivals, seq, input, invoked, lastGet,
                   fnArgs, fnResult, client>>

ExtractionResolves(r, text) ==
    /\ pc[r] = "extracting"
    /\ LET insertDocument == BuildInsert(input[r].file, local[r].validatedData,
                                         text, Today, west)
           c == createDocument(documents, currentId, insertDocument, Today)
       IN  /\ documents' = c.documents
           /\ currentId' = c.currentId
           /\ local' = [local EXCEPT ![r].extractedText = text,
                                     ![r].document = c.document]
           /\ calls' = Append(calls, [seq |-> seq[r], before |-> currentId,
                                      document |-> c.document])
    /\ pc' = [pc EXCEPT ![r] = "created"]
    /\ trace' = [trace EXCEPT ![r] = @ \o <<"calculateAge", "createDocument">>]
    /\ UNCHANGED <<west, clock, arrivals, seq, input, invoked, res, lastGet,
                   fnArgs, fnResult, client>>

\* variant of the failure path that has saved the record before extraction ended
ExtractionRejectsStoring(r, message) ==
    /\ pc[r] = "extracting"
    /\ pc' = [pc EXCEPT ![r] = "done"]
    /\ res' = [res EXCEPT ![r] = Append(@, UploadFailure(ExtractionError(message)))]
    /\ LET insertDocument == BuildInsert(input[r].file, local[r].validatedData,
                                         "", Today, west)
           c == createDocument(documents, currentId, insertDocument, Today)
       IN  /\ documents' = c.documents
           /\ currentId' = c.currentId
    /\ local' = [local EXCEPT ![r].error = [message |-> message]]
    /\ UNCHANGED <<west, clock, arrivals, seq, input,
                   invoked, trace, calls, lastGet,
                   fnArgs, fnResult, client>>

\* variant of the failure path that calls the capability a second time
ExtractionRejectsRetry(r, message) ==
    /\ pc[r] = "extracting"
    /\ IF Len(invoked[r]) < 2
       THEN /\ invoked' = [invoked EXCEPT ![r] = Append(@, @[1])]
            /\ UNCHANGED <<pc, local, res>>
       ELSE /\ pc' = [pc EXCEPT ![r] = "done"]
            /\ local' = [local EXCEPT ![r].error = [message |-> message]]
            /\ res' = [res EXCEPT ![r] = Append(@, UploadFailure(ExtractionError(message)))]
            /\ UNCHANGED invoked
    /\ UNCHANGED <<west, clock, documents, currentId, arrivals, seq, input,
                   trace, calls, lastGet, fnArgs, fnResult, client>>

\* the capability throws: extractTextFromFile rethrows, the catch block answers
ExtractionRejects(r, message) ==
    /\ pc[r] = "extracting"
    /\ pc' = [pc EXCEPT ![r] = "done"]
    /\ local' = [local EXCEPT ![r].error = [message |-> message]]
    /\ res' = [res EXCEPT ![r] = Append(@, UploadFailure(ExtractionError(message)))]
    /\ UNCHANGED <<west, clock, documents, currentId, arrivals, seq, input,
                   invoked, trace, calls, lastGet,
                   fnArgs, fnResult, client>>

\* variant of the answer that reads the newest record of the store
UploadRespondLatest(r) ==
    /\ pc[r] = "created"
    /\ pc' = [pc EXCEPT ![r] = "done"]
    /\ res' = [res EXCEPT ![r] = Append(@, UploadResponse(documents[currentId - 1]))]
    /\ trace' = [trace EXCEPT ![r] = Append(@, "respond")]
    /\ UNCHANGED <<west, clock, documents, currentId, arrivals, seq, input, local,
                   invoked, calls, lastGet, fnArgs, fnResult, client>>

\* the promise of createDocument has resolved: res.json
UploadRespond(r) ==
    /\ pc[r] = "created"
    /\ pc' = [pc EXCEPT ![r] = "done"]
    /\ res' = [res EXCEPT ![r] = Append(@, UploadResponse(local[r].document))]
    /\ trace' = [trace EXCEPT ![r] = Append(@, "respond")]
    /\ UNCHANGED <<west, clock, documents, currentId, arrivals, seq, input, local,
                   invoked, calls, lastGet,
                   fnArgs, fnResult, client>>

\* the connection of an answered request closes: its slot is free again
Close(r) ==
    /\ pc[r] = "done"
    /\ pc' = [pc EXCEPT ![r] = "idle"]
    /\ seq' = [seq EXCEPT ![r] = 0]
    /\ input' = [input EXCEPT ![r] = undefined]
    /\ local' = [local EXCEPT ![r] = NoLocals]
    /\ invoked' = [invoked EXCEPT ![r] = <<>>]
    /\ trace' = [trace EXCEPT ![r] = <<>>]
    /\ res' = [res EXCEPT ![r] = <<>>]
    /\ UNCHANGED <<west, clock, documents, currentId, arrivals, calls, lastGet,
                   fnArgs, fnResult, client>>

\* a GET /api/document/:id, answered from the store as it is
GetDocument(segment) ==
    /\ lastGet' = [segment |-> segment,
                   issued |-> {calls[k].document.id : k \in DOMAIN calls},
                   res |-> GetDocumentRoute(documents, segment)]
    /\ UNCHANGED <<west, clock, documents, currentId, arrivals, pc, seq, input,
                   local, invoked, trace, res, calls,
                   fnArgs, fnResult, client>>

\* midnight passes
Tick ==
    /\ clock < MaxTicks
    /\ clock' = clock + 1
    /\ UNCHANGED <<west, documents, currentId, arrivals, pc, seq, input, local,
                   invoked, trace, res, calls, lastGet,
                   fnArgs, fnResult, client>>

\* the server with every upload it accepts in flight at once; the k-th request
\* takes slot k
Next ==
    \/ \E in \in StoreUploads : PostUpload(arrivals + 1, in, MaxUploads)
    \/ \E r \in Slots, text \in Texts : ExtractionResolves(r, text)
    \/ \E r \in Slots, message \in CapabilityErrors : ExtractionRejects(r, message)
    \/ \E r \in Slots : UploadRespond(r)
    \/ Tick

Spec == Init /\ [][Next]_vars

\* the server taking one upload at a time, with every kind of request
NextUpload ==
    \/ \E in \in AllUploads : PostUpload(1, in, MaxSeqUploads)
    \/ \E text \in Texts : ExtractionResolves(1, text)
    \/ \E message \in CapabilityErrors : ExtractionRejects(1, message)
    \/ UploadRespond(1)
    \/ Close(1)

SpecUpload == Init /\ [][NextUpload]_vars

\* the concurrent server with lookups between the steps of its uploads
NextLookup ==
    \/ \E in \in StoreUploads : PostUpload(arrivals + 1, in, MaxUploads)
    \/ \E r \in Slots, text \in Texts : ExtractionResolves(r, text)
    \/ \E r \in Slots, message \in CapabilityErrors : ExtractionRejects(r, message)
    \/ \E r \in Slots : UploadRespond(r)
    \/ \E segment \in Segments : GetDocument(segment)

SpecLookup == Init /\ [][NextLookup]_vars

\* the dates of birth submitted to the server whose clock runs: past ones, the
\* day after the server starts, a year in the future
BirthDates ==
    { IsoString(1994, 1, 1), IsoString(2000, 3, 15), IsoString(2024, 3, 15),
      IsoString(2030, 1, 1) }

DateUploads ==
    { Upload(File(Pdf, 2048, "passport.pdf"), Body(AllFields, "John", "Doe", d)) :
        d \in BirthDates }

\* one connection sending valid uploads one after the other while days pass
NextDates ==
    \/ \E in \in DateUploads : PostUpload(1, in, MaxSeqUploads)
    \/ \E text \in Texts : ExtractionResolves(1, text)
    \/ \E message \in CapabilityErrors : ExtractionRejects(1, message)
    \/ UploadRespond(1)
    \/ Close(1)
    \/ Tick

SpecDates == Init /\ [][NextDates]_vars

(***************************************************************************)
(* calculateAge called on its own.                                         *)
(***************************************************************************)
\* the days from n before a to n after it
Around(a, n) == { AddDays(SubDays(a, n), k) : k \in 0..(2 * n) }

\* birth days around a plain day, a year's end, a leap day and the present
BirthAnchors == { <<2000, 3, 15>>, <<1999, 12, 31>>, <<2000, 2, 29>>, <<2024, 3, 14>> }

\* reference days around a plain day, a year's end and the end of a February
ReferenceAnchors == { <<2024, 3, 15>>, <<2024, 12, 31>>, <<2023, 2, 28>> }

\* a date of birth, the day after it, and the local day new Date() falls on
AgeArgs ==
    { [fn |-> "calculateAge",
       dateOfBirth |-> IsoString(b[1], b[2], b[3]),
       dayLater |-> IsoString(NextDay(b)[1], NextDay(b)[2], NextDay(b)[3]),
       today |-> t] :
        b \in UNION { Around(a, AgeWindow) : a \in BirthAnchors },
        t \in UNION { Around(a, AgeWindow) : a \in ReferenceAnchors } }

InitAge == \E args \in AgeArgs : ServerInit(args)

\* calculateAge(dateOfBirth) on the reference day
CallCalculateAge ==
    /\ fnArgs.fn = "calculateAge"
    /\ fnResult = <<>>
    /\ fnResult' = <<calculateAge(fnArgs.dateOfBirth, fnArgs.today, west)>>
    /\ UNCHANGED <<west, clock, documents, currentId, arrivals, pc, seq, input,
                   local, invoked, trace, res, calls, lastGet, fnArgs, client>>

\* calculateAge(the day after dateOfBirth) on the same reference day
CallCalculateAgeDayLater ==
    /\ fnArgs.fn = "calculateAge"
    /\ Len(fnResult) = 1
    /\ fnResult' = Append(fnResult, calculateAge(fnArgs.dayLater, fnArgs.today, west))
    /\ UNCHANGED <<west, clock, documents, currentId, arrivals, pc, seq, input,
                   local, invoked, trace, res, calls, lastGet, fnArgs, client>>

NextAge == CallCalculateAge \/ CallCalculateAgeDayLater

SpecAge == InitAge /\ [][NextAge]_vars

(***************************************************************************)
(* extractTextFromFile called on its own.                                  *)
(***************************************************************************)
ExtractArgs ==
    { [fn |-> "extractTextFromFile", file |-> File(m, sz, "scan")] :
        m \in Mimes, sz \in {1, fileSize} }

InitExtract == \E args \in ExtractArgs : ServerInit(args)

\* the call runs the dispatch
CallExtract ==
    /\ fnArgs.fn = "extractTextFromFile"
    /\ fnResult = <<>>
    /\ fnResult' = <<extractTextFromFile(fnArgs.file)>>
    /\ UNCHANGED <<west, clock, documents, currentId, arrivals, pc, seq, input,
                   local, invoked, trace, res, calls, lastGet, fnArgs, client>>

\* the awaited capability resolves: the function returns its text
CapabilityResolves(text) ==
    /\ fnArgs.fn = "extractTextFromFile"
    /\ Len(fnResult) = 1
    /\ fnResult[1].event = "invoke"
    /\ fnResult' = Append(fnResult, [event |-> "return", value |-> text])
    /\ UNCHANGED <<west, clock, documents, currentId, arrivals, pc, seq, input,
                   local, invoked, trace, res, calls, lastGet, fnArgs, client>>

\* the awaited capability rejects: the catch rethrows
CapabilityRejects(message) ==
    /\ fnArgs.fn = "extractTextFromFile"
    /\ Len(fnResult) = 1
    /\ fnResult[1].event = "invoke"
    /\ fnResult' = Append(fnResult, [event |-> "throw",
                                     error |-> ExtractionError(message)])
    /\ UNCHANGED <<west, clock, documents, currentId, arrivals, pc, seq, input,
                   local, invoked, trace, res, calls, lastGet, fnArgs, client>>

NextExtract ==
    \/ CallExtract
    \/ \E text \in Texts : CapabilityResolves(text)
    \/ \E message \in CapabilityErrors : CapabilityRejects(message)

SpecExtract == InitExtract /\ [][NextExtract]_vars

(***************************************************************************)
(* The upload page in the browser.                                         *)
(***************************************************************************)
\* the files the user picks or drops
ClientFiles ==
    { ClientFile(t, sz, "scan") : t \in {Pdf, Png, Gif},
                                  sz \in {clientMaxSize, clientMaxSize + 1} }

\* the FileList of a change or drop event: handlers read its first entry
FileLists ==
    {<<>>} \cup { <<f>> : f \in ClientFiles }
           \cup { <<ClientFile(Gif, 1, "anim"), ClientFile(Pdf, 1, "paper")>> }

\* what the user types into the three fields
FormValues ==
    [firstName : {"", "John"}, lastName : {"", "Doe"},
     dateOfBirth : {<<>>, IsoString(1994, 1, 1)}]

\* the form is on screen: the page is open and no upload is pending
FormShown == client.location = "/" /\ ~client.isPending

handleDragOver ==
    /\ FormShown
    /\ client' = [client EXCEPT !.isDragOver = TRUE]
    /\ UNCHANGED serverVars

handleDragLeave ==
    /\ FormShown
    /\ client' = [client EXCEPT !.isDragOver = FALSE]
    /\ UNCHANGED serverVars

handleDrop(files) ==
    /\ FormShown
    /\ LET page == [client EXCEPT !.isDragOver = FALSE]
       IN  client' = IF Len(files) > 0 THEN handleFileSelect(page, files[1]) ELSE page
    /\ UNCHANGED serverVars

handleFileInputChange(files) ==
    /\ FormShown
    /\ client' = IF Len(files) > 0 THEN handleFileSelect(client, files[1]) ELSE client
    /\ UNCHANGED serverVars

\* the X button of the file preview: setSelectedFile(null)
RemoveFile ==
    /\ FormShown
    /\ client.selectedFile # null
    /\ client' = [client EXCEPT !.selectedFile = null]
    /\ UNCHANGED serverVars

\* the user edits the registered inputs
FormInput(values) ==
    /\ FormShown
    /\ client' = [client EXCEPT !.form = values]
    /\ UNCHANGED serverVars

\* form.handleSubmit(onSubmit): the zod resolver, then onSubmit with its data
Submit ==
    /\ FormShown
    /\ client.submits < MaxSubmits
    /\ LET parsed == uploadSchemaParse(client.form)
       IN  IF ~parsed.success
           THEN UNCHANGED client
           ELSE IF client.selectedFile = null
           THEN client' = [client EXCEPT !.toast = "No file selected"]
           ELSE client' = [client EXCEPT
                              !.isPending = TRUE,
                              !.submits = @ + 1,
                              !.request = [file |-> client.selectedFile,
                                           firstName |-> parsed.data.firstName,
                                           lastName |-> parsed.data.lastName,
                                           dateOfBirth |-> parsed.data.dateOfBirth]]
    /\ UNCHANGED serverVars

\* the request resolves: onSuccess
UploadSucceeds ==
    /\ client.isPending
    /\ client' = [client EXCEPT !.isPending = FALSE, !.toast = "Success",
                                !.location = "/results"]
    /\ UNCHANGED serverVars

\* the request rejects: onError
UploadFails ==
    /\ client.isPending
    /\ client' = [client EXCEPT !.isPending = FALSE, !.toast = "Error"]
    /\ UNCHANGED serverVars

NextClient ==
    \/ handleDragOver
    \/ handleDragLeave
    \/ \E files \in FileLists : handleDrop(files)
    \/ \E files \in FileLists : handleFileInputChange(files)
    \/ RemoveFile
    \/ \E values \in FormValues : FormInput(values)
    \/ Submit
    \/ UploadSucceeds
    \/ UploadFails

SpecClient == Init /\ [][NextClient]_vars

(***************************************************************************)
(* The document store.                                                     *)
(***************************************************************************)
DocumentFields ==
    {"id", "firstName", "lastName", "dateOfBirth", "fullName", "age",
     "extractedText", "fileName", "fileType", "createdAt"}

IssuedIds == {calls[k].document.id : k \in DOMAIN calls}

\* C1: on the freshly constructed store the k-th createDocument call returns a
\* Document with id k, so the first id is 1, each id is one above the previous
\* one, and no id is returned twice.
C1_KthCallReturnsIdK ==
    /\ \A k \in DOMAIN calls : calls[k].document.id = k
    /\ \A j, k \in DOMAIN calls : j # k => calls[j].document.id # calls[k].document.id

\* two createDocument calls have returned
C1_Witness == Len(calls) >= 2 /\ calls[2].document.id = 2

\* C2: createDocument calls made by uploads that are in flight together, in
\* whatever order their extractions finish, return pairwise distinct ids that
\* form a contiguous ascending run from the counter value read by the first of
\* them: no id is skipped and none is handed out twice.
C2_ConcurrentIdsContiguous ==
    \A i, j \in DOMAIN calls :
        i <= j => /\ calls[j].document.id = calls[i].before + (j - i)
                  /\ (i # j => calls[i].document.id # calls[j].document.id)
                  /\ currentId = calls[j].document.id + (Len(calls) - j) + 1

\* the upload that arrived second got its id first, while the first one was
\* still suspended in extraction, and then the first one got the next id
C2_Witness ==
    /\ Len(calls) = 2
    /\ calls[1].seq = 2 /\ calls[2].seq = 1
    /\ calls[1].document.id = 1 /\ calls[2].document.id = 2

\* C3: for every id createDocument has returned, getDocument(id) returns, in
\* every later state, a Document equal in all ten fields to the returned one;
\* and a lookup answered 200 carries exactly that Document.
C3_GetReturnsCreated ==
    /\ \A k \in DOMAIN calls :
          /\ DOMAIN calls[k].document = DocumentFields
          /\ getDocument(documents, calls[k].document.id) = calls[k].document
    /\ (lastGet # undefined /\ lastGet.res.status = 200) =>
          \E k \in DOMAIN calls :
              /\ Num(calls[k].document.id) = parseInt(lastGet.segment)
              /\ lastGet.res.body = calls[k].document

\* document 1 was looked up after a second document had been created
C3_Witness ==
    /\ Len(calls) >= 2
    /\ lastGet # undefined
    /\ lastGet.segment = <<"1">> /\ lastGet.res.status = 200
    /\ lastGet.issued = {1, 2}

ProbeIds == (0 - 2)..(MaxUploads + 2)

\* C4: getDocument returns undefined for every id no createDocument call has
\* returned so far (0, negative ids, ids at or above the counter), and the route
\* answers such an id 404 "Document not found".
C4_UnknownIdNotFound ==
    /\ \A id \in ProbeIds \ IssuedIds : getDocument(documents, id) = undefined
    /\ (/\ lastGet # undefined
        /\ ~parseInt(lastGet.segment).nan
        /\ parseInt(lastGet.segment).val \notin lastGet.issued) =>
          /\ lastGet.res.status = 404
          /\ lastGet.res.body = [message |-> "Document not found"]

\* id 0 was asked for while the store held a document
C4_Witness ==
    /\ lastGet # undefined
    /\ lastGet.segment = <<"0">>
    /\ lastGet.issued # {}
    /\ lastGet.res.status = 404

\* C5: a stored Document stays stored under its id with the same field values
\* in every later state, and the reference the upload handler holds between
\* createDocument and its response shows the stored value.
C5_StoredDocumentsImmutable ==
    [][/\ \A id \in DOMAIN documents :
            id \in DOMAIN documents' /\ documents'[id] = documents[id]
       /\ \A r \in Slots :
            local'[r].document # undefined =>
                getDocument(documents', local'[r].document.id) = local'[r].document]_vars

\* a second document was stored while the first was kept, and its upload answered
C5_Witness ==
    /\ DOMAIN documents = {1, 2}
    /\ documents[1] # documents[2]
    /\ \E r \in Slots : pc[r] = "done" /\ local[r].document = documents[2]

(***************************************************************************)
(* The upload pipeline.                                                    *)
(***************************************************************************)
\* the form fields of a body that are missing or empty
BadFields(body) == {f \in AllFields : f \notin DOMAIN body \/ Len(body[f]) = 0}

\* a file the upload middleware lets through
FileAccepted(file) ==
    /\ file # undefined
    /\ file.mimetype \in {Pdf, Jpeg, Jpg, Png}
    /\ file.size <= 10485760

\* the characters of s have the shape YYYY-MM-DD
YmdForm(s) ==
    /\ Len(s) = 10
    /\ s[5] = "-" /\ s[8] = "-"
    /\ \A i \in {1, 2, 3, 4, 6, 7, 9, 10} :
          s[i] \in {"0", "1", "2", "3", "4", "5", "6", "7", "8", "9"}

\* request slot r has made no createDocument call
NoCallOf(r) == \A k \in DOMAIN calls : calls[k].seq # seq[r]

LastRes(r) == res[r][Len(res[r])]

\* C6: the step in which an upload is answered with a failure leaves the map
\* and the id counter as they were and the failed upload has made no
\* createDocument call; createDocument is called only by an upload whose file
\* check, form validation and extraction have succeeded, with age and fullName
\* derived.
C6_FailedUploadLeavesStore ==
    [][/\ \A r \in Slots :
            (Len(res'[r]) > Len(res[r]) /\ res'[r][Len(res'[r])].status # 200) =>
                /\ documents' = documents
                /\ currentId' = currentId
                /\ calls' = calls
                /\ \A k \in DOMAIN calls : calls[k].seq # seq'[r]
       /\ (documents' # documents \/ currentId' # currentId \/ calls' # calls) =>
            \E r \in Slots :
                /\ pc[r] = "extracting" /\ pc'[r] = "created"
                /\ FileAccepted(input[r].file)
                /\ BadFields(input[r].body) = {}
                /\ trace[r] = <<"fileCheck", "validate", "extract">>
                /\ Len(invoked[r]) = 1 /\ res[r] = <<>>
                /\ calls' = Append(calls, calls'[Len(calls')])
                /\ calls'[Len(calls')].seq = seq[r]
                /\ calls'[Len(calls')].document.extractedText \in Texts
                /\ calls'[Len(calls')].document.fullName =
                      input[r].body.firstName \o " " \o input[r].body.lastName
                /\ DOMAIN documents' = DOMAIN documents \cup {currentId}]_vars

\* an extraction failed while the store held the document of an earlier upload
C6_Witness ==
    /\ pc[1] = "done"
    /\ Len(invoked[1]) = 1
    /\ LastRes(1).status = 500
    /\ DOMAIN documents = {1} /\ currentId = 2
    /\ NoCallOf(1)

\* C7: the handler checks file presence, then the form, then extracts: a
\* request without a file is answered MissingFile whatever its form fields, a
\* request with a file and a bad form field is answered InvalidFormData
\* without extraction being called, and no step after the failing one runs.
C7_FailureOfEarliestStep ==
    \A r \in Slots : input[r] # undefined =>
        /\ input[r].file = undefined =>
              /\ res[r] = <<[status |-> 400, body |-> [message |-> "No file uploaded"]]>>
              /\ trace[r] = <<"fileCheck">>
              /\ invoked[r] = <<>>
              /\ NoCallOf(r)
        /\ (FileAccepted(input[r].file) /\ BadFields(input[r].body) # {}) =>
              /\ Len(res[r]) = 1
              /\ res[r][1].status = 400
              /\ res[r][1].body.message = "Invalid form data"
              /\ trace[r] = <<"fileCheck", "validate">>
              /\ invoked[r] = <<>>
              /\ NoCallOf(r)
        /\ (FileAccepted(input[r].file) /\ BadFields(input[r].body) = {}) =>
              /\ SubSeq(trace[r], 1, 3) = <<"fileCheck", "validate", "extract">>
              /\ Len(invoked[r]) = 1

\* a request with no file and an empty firstName was answered MissingFile
C7_Witness ==
    /\ pc[1] = "done"
    /\ input[1].file = undefined
    /\ "firstName" \in DOMAIN input[1].body /\ input[1].body.firstName = ""
    /\ res[1][1].body.message = "No file uploaded"

\* the fields named by the errors list of a response
ErrorPaths(response) ==
    {response.body.errors[i].path : i \in DOMAIN response.body.errors}

\* the answer InvalidFormData naming exactly the fields of the set bad
InvalidFormDataNaming(r, bad) ==
    /\ Len(res[r]) = 1
    /\ res[r][1].status = 400
    /\ res[r][1].body.message = "Invalid form data"
    /\ ErrorPaths(res[r][1]) = bad
    /\ Len(res[r][1].body.errors) = Cardinality(bad)

\* C8 as stated: every upload with a missing or empty firstName, lastName or
\* dateOfBirth is answered 400 InvalidFormData naming each such field, without
\* extraction and without a stored Document.
C8_AsStated ==
    \A r \in Slots :
        (input[r] # undefined /\ BadFields(input[r].body) # {}) =>
            /\ InvalidFormDataNaming(r, BadFields(input[r].body))
            /\ invoked[r] = <<>>
            /\ NoCallOf(r)

\* C8 amended: an upload with a missing or empty firstName, lastName or
\* dateOfBirth never reaches the extractor and stores no Document; when it
\* carries a file the upload middleware accepted it is answered 400
\* InvalidFormData with an errors list naming each such field.
C8_InvalidFormWithAcceptedFile ==
    \A r \in Slots :
        (input[r] # undefined /\ BadFields(input[r].body) # {}) =>
            /\ FileAccepted(input[r].file) =>
                  InvalidFormDataNaming(r, BadFields(input[r].body))
            /\ invoked[r] = <<>>
            /\ NoCallOf(r)

\* an accepted file came with an empty firstName and no dateOfBirth
C8_Witness ==
    /\ pc[1] = "done"
    /\ FileAccepted(input[1].file)
    /\ BadFields(input[1].body) = {"firstName", "dateOfBirth"}
    /\ "firstName" \in DOMAIN input[1].body
    /\ "dateOfBirth" \notin DOMAIN input[1].body
    /\ ErrorPaths(res[1][1]) = {"firstName", "dateOfBirth"}

\* C9: an upload with an accepted file whose dateOfBirth is a non-empty string
\* that is not of the form YYYY-MM-DD is answered 400 InvalidFormData with an
\* error for dateOfBirth and reaches neither extraction nor age computation
\* nor storage.
C9_MalformedDateRejected ==
    \A r \in Slots :
        (/\ input[r] # undefined
         /\ FileAccepted(input[r].file)
         /\ "dateOfBirth" \in DOMAIN input[r].body
         /\ Len(input[r].body.dateOfBirth) > 0
         /\ ~YmdForm(input[r].body.dateOfBirth)) =>
            /\ invoked[r] = <<>>
            /\ NoCallOf(r)
            /\ Len(res[r]) = 1
            /\ res[r][1].status = 400
            /\ "dateOfBirth" \in ErrorPaths(res[r][1])

\* C10: an upload whose file has a MIME type other than application/pdf,
\* image/jpeg, image/jpg and image/png is rejected with the unsupported-type
\* error before the handler runs: no capability is invoked, no step of the
\* pipeline is executed and no Document is stored.
C10_UnsupportedTypeRejected ==
    \A r \in Slots :
        (/\ input[r] # undefined
         /\ input[r].file # undefined
         /\ input[r].file.mimetype \notin {Pdf, Jpeg, Jpg, Png}) =>
            /\ pc[r] = "done"
            /\ Len(res[r]) = 1
            /\ res[r][1].status >= 400
            /\ res[r][1].body.message =
                  "Invalid file type. Only PDF and images (JPG, PNG) are allowed."
            /\ invoked[r] = <<>>
            /\ trace[r] = <<>>
            /\ NoCallOf(r)

\* a text/plain file with a valid form was rejected
C10_Witness ==
    /\ pc[1] = "done"
    /\ input[1].file # undefined
    /\ input[1].file.mimetype = Plain
    /\ BadFields(input[1].body) = {}
    /\ res[1][1].status = 500
    /\ invoked[1] = <<>>

\* C11 as stated: every upload with a file larger than 10,485,760 bytes is
\* answered with the too-large error whatever its MIME type, and no file of at
\* most 10,485,760 bytes is answered with it.
C11_AsStated ==
    \A r \in Slots :
        (input[r] # undefined /\ input[r].file # undefined) =>
            /\ input[r].file.size > 10485760 =>
                  /\ pc[r] = "done"
                  /\ Len(res[r]) = 1
                  /\ res[r][1].body.message = "File too large"
            /\ input[r].file.size <= 10485760 =>
                  \A i \in DOMAIN res[r] : res[r][i].body # [message |-> "File too large"]

\* C11 amended: a file larger than 10,485,760 bytes whose MIME type is allowed
\* is rejected with the too-large error before the handler runs; one whose MIME
\* type is not allowed is rejected with the unsupported-type error instead; a
\* file of at most 10,485,760 bytes is never rejected for its size.
C11_TooLargeAfterTypeCheck ==
    \A r \in Slots :
        (input[r] # undefined /\ input[r].file # undefined) =>
            /\ input[r].file.size > 10485760 =>
                  /\ pc[r] = "done"
                  /\ Len(res[r]) = 1
                  /\ res[r][1].status >= 400
                  /\ res[r][1].body.message =
                        IF input[r].file.mimetype \in {Pdf, Jpeg, Jpg, Png}
                        THEN "File too large"
                        ELSE "Invalid file type. Only PDF and images (JPG, PNG) are allowed."
                  /\ invoked[r] = <<>>
                  /\ trace[r] = <<>>
                  /\ NoCallOf(r)
            /\ input[r].file.size <= 10485760 =>
                  \A i \in DOMAIN res[r] : res[r][i].body # [message |-> "File too large"]

\* a PDF one byte over the limit was rejected as too large
C11_Witness ==
    /\ pc[1] = "done"
    /\ input[1].file # undefined
    /\ input[1].file.mimetype = Pdf
    /\ input[1].file.size = 10485761
    /\ res[1][1].body.message = "File too large"

\* the age the written rule gives: the difference of the years, less one when
\* the reference month and day come before the written month and day of birth
WrittenAge(dateOfBirth, ref) ==
    LET y == Num4(dateOfBirth, 1)
        m == Num2(dateOfBirth, 6)
        d == Num2(dateOfBirth, 9)
    IN  IF ref[2] < m \/ (ref[2] = m /\ ref[3] < d)
        THEN ref[1] - y - 1
        ELSE ref[1] - y

\* C12: every stored Document has an age that is a non-negative integer and is
\* the age of its dateOfBirth on the day it was created, for every dateOfBirth
\* the upload validation lets through, dates after the current date included.
C12_StoredAgeNonNegative ==
    \A id \in DOMAIN documents :
        /\ ~documents[id].age.nan
        /\ documents[id].age.val >= 0
        /\ YmdForm(documents[id].dateOfBirth)
        /\ documents[id].age.val =
              WrittenAge(documents[id].dateOfBirth, documents[id].createdAt)

\* C13: for every date of birth and reference date calculateAge returns the
\* difference of the years, less one exactly when the reference month and day
\* come before the month and day written in the YYYY-MM-DD string (dob
\* 2000-03-15 gives 23 on 2024-03-14 and 24 on 2024-03-15 and 2024-03-16).
C13_AgeOfWrittenDate ==
    (fnArgs # undefined /\ fnArgs.fn = "calculateAge" /\ Len(fnResult) >= 1) =>
        fnResult[1] = Num(WrittenAge(fnArgs.dateOfBirth, fnArgs.today))

\* month and day of a YYYY-MM-DD string
WrittenMonthDay(dateOfBirth) == <<Num2(dateOfBirth, 6), Num2(dateOfBirth, 9)>>

WrittenDay(dateOfBirth) ==
    <<Num4(dateOfBirth, 1), Num2(dateOfBirth, 6), Num2(dateOfBirth, 9)>>

\* lexicographic order of tuples of two or three numbers
TupleLess(a, b) ==
    \E i \in 1..Len(a) : a[i] < b[i] /\ \A j \in 1..(i - 1) : a[j] = b[j]

\* C14: a date of birth strictly before the reference date has an age >= 0, and
\* moving the date of birth one day later changes the age by 0 or by -1, the -1
\* exactly when the birthday moves from on or before the reference month and
\* day to after it.
C14_AgeMonotone ==
    (fnArgs # undefined /\ fnArgs.fn = "calculateAge" /\ Len(fnResult) = 2) =>
        LET ref == <<fnArgs.today[2], fnArgs.today[3]>>
            change == fnResult[2].val - fnResult[1].val
            crosses == /\ ~TupleLess(ref, WrittenMonthDay(fnArgs.dateOfBirth))
                       /\ TupleLess(ref, WrittenMonthDay(fnArgs.dayLater))
        IN  /\ ~fnResult[1].nan /\ ~fnResult[2].nan
            /\ TupleLess(WrittenDay(fnArgs.dateOfBirth), fnArgs.today) =>
                  fnResult[1].val >= 0
            /\ change \in {0, 0 - 1}
            /\ change = 0 - 1 <=> crosses

\* C15: the extractor's dispatch is exhaustive: application/pdf invokes the PDF
\* parser, exactly image/jpeg, image/jpg and image/png invoke OCR with the
\* English model, and every other MIME type (image/gif, text/plain) invokes
\* neither and fails with the unsupported-type error, not with the
\* extraction-failed one.
C15_DispatchExhaustive ==
    (fnArgs # undefined /\ fnArgs.fn = "extractTextFromFile" /\ Len(fnResult) >= 1) =>
        LET mimetype == fnArgs.file.mimetype
            first == fnResult[1]
        IN  /\ mimetype = Pdf =>
                  first = [event |-> "invoke", capability |-> "pdfParse", lang |-> ""]
            /\ mimetype \in {Jpeg, Jpg, Png} =>
                  first = [event |-> "invoke", capability |-> "Tesseract", lang |-> "eng"]
            /\ mimetype \notin {Pdf, Jpeg, Jpg, Png} =>
                  /\ first.event = "throw"
                  /\ first.error.message = "Unsupported file type"

\* C16: whenever the PDF parser or the OCR engine raises an exception during an
\* upload, the request is answered once, 500, with a message carrying the
\* original exception message, in the same form whichever capability failed,
\* and no Document is stored for it.
C16_CapabilityFailureAnswered ==
    \A r \in Slots :
        local[r].error # undefined =>
            /\ pc[r] = "done"
            /\ invoked[r] \in {<<"pdfParse">>, <<"Tesseract">>}
            /\ res[r] = <<[status |-> 500,
                           body |-> [message |-> "Text extraction failed: "
                                                    \o local[r].error.message]]>>
            /\ NoCallOf(r)
            /\ local[r].document = undefined

\* the OCR engine raised an error and the upload was answered 500 with it
C16_Witness ==
    /\ pc[1] = "done"
    /\ invoked[1] = <<"Tesseract">>
    /\ local[1].error = [message |-> "Error attempting to read image."]
    /\ res[1][1].status = 500
    /\ res[1][1].body.message = "Text extraction failed: Error attempting to read image."

\* C17: each upload request invokes the extraction capability at most once,
\* exactly once if its file and its form passed validation and not at all
\* otherwise, and a failed extraction is not retried within the request.
C17_ExtractionAtMostOnce ==
    \A r \in Slots :
        /\ Len(invoked[r]) <= 1
        /\ input[r] # undefined =>
              (Len(invoked[r]) = 1 <=>
                  FileAccepted(input[r].file) /\ BadFields(input[r].body) = {})
        /\ local[r].error # undefined => (pc[r] = "done" /\ Len(invoked[r]) = 1)

\* an extraction failed and the request ended with its single invocation
C17_Witness ==
    /\ pc[1] = "done"
    /\ local[1].error # undefined
    /\ invoked[1] = <<"pdfParse">>
    /\ Len(res[1]) = 1

\* C18: when extraction succeeds, with the empty string as with any text, the
\* handler stores a Document holding that text under a fresh id and then
\* answers 200 with that text.
C18_EmptyTextIsSuccess ==
    [][\A r \in Slots :
          /\ (pc[r] = "extracting" /\ pc'[r] # "extracting"
                 /\ local'[r].error = undefined) =>
                /\ pc'[r] = "created"
                /\ local'[r].document # undefined
                /\ local'[r].document.id \notin DOMAIN documents
                /\ local'[r].document.id \in DOMAIN documents'
                /\ documents'[local'[r].document.id] = local'[r].document
                /\ local'[r].document.extractedText = local'[r].extractedText
          /\ (pc[r] = "created" /\ pc'[r] # "created") =>
                /\ pc'[r] = "done"
                /\ Len(res'[r]) = 1
                /\ res'[r][1].status = 200
                /\ res'[r][1].body.id = local[r].document.id
                /\ res'[r][1].body.extractedText = local[r].extractedText
                /\ documents'[local[r].document.id].extractedText = local[r].extractedText
      ]_vars

\* a PDF without text was answered 200 with extractedText "" and is stored so
C18_Witness ==
    /\ pc[1] = "done"
    /\ local[1].document # undefined
    /\ input[1].file.mimetype = Pdf
    /\ local[1].extractedText = ""
    /\ res[1][1].status = 200
    /\ res[1][1].body.extractedText = ""
    /\ documents[res[1][1].body.id].extractedText = ""

ResponseFields == {"id", "fullName", "age", "extractedText", "fileName", "fileType"}

\* C19: a successful upload response consists of exactly id, fullName, age,
\* extractedText, fileName and fileType, each equal to the same field of the
\* Document stored under that id; a GET for that id made once the Document is
\* stored returns the full Document, with firstName, lastName and dateOfBirth as
\* submitted and createdAt as stamped.
C19_ResponseMatchesStored ==
    \A r \in Slots :
        (pc[r] = "done" /\ local[r].document # undefined) =>
            LET body == res[r][1].body
            IN  /\ Len(res[r]) = 1
                /\ res[r][1].status = 200
                /\ DOMAIN body = ResponseFields
                /\ body.id \in DOMAIN documents
                /\ \A f \in ResponseFields : body[f] = documents[body.id][f]
                /\ (lastGet # undefined /\ parseInt(lastGet.segment) = Num(body.id)
                        /\ body.id \in lastGet.issued) =>
                      /\ lastGet.res.status = 200
                      /\ DOMAIN lastGet.res.body = DocumentFields
                      /\ lastGet.res.body = documents[body.id]
                      /\ \A f \in ResponseFields : lastGet.res.body[f] = body[f]
                      /\ \A f \in AllFields : lastGet.res.body[f] = input[r].body[f]
                      /\ lastGet.res.body.createdAt = Today

\* upload 2 was answered and its id fetched with every field
C19_Witness ==
    /\ pc[2] = "done"
    /\ local[2].document # undefined
    /\ res[2][1].status = 200
    /\ lastGet # undefined
    /\ parseInt(lastGet.segment) = Num(res[2][1].body.id)
    /\ res[2][1].body.id \in lastGet.issued
    /\ lastGet.res.status = 200
    /\ lastGet.res.body.lastName = input[2].body.lastName

\* C20: every stored Document has fullName = firstName + " " + lastName,
\* fileType = the MIME type and fileName = the original name of the file of the
\* request that created it; John Doe born 1994-01-01 with a PDF on reference
\* date 2024-01-02 yields fullName "John Doe", age 30, fileType application/pdf.
C20_DerivedFields ==
    /\ \A id \in DOMAIN documents :
          \E k \in DOMAIN calls, r \in Slots :
              /\ calls[k].document = documents[id]
              /\ seq[r] = calls[k].seq
              /\ documents[id].fullName =
                    documents[id].firstName \o " " \o documents[id].lastName
              /\ documents[id].firstName = input[r].body.firstName
              /\ documents[id].lastName = input[r].body.lastName
              /\ documents[id].fileType = input[r].file.mimetype
              /\ documents[id].fileName = input[r].file.originalname
    /\ \A w \in BOOLEAN, text \in Texts :
          LET d == BuildInsert(File(Pdf, 2048, "passport.pdf"),
                               [firstName |-> "John", lastName |-> "Doe",
                                dateOfBirth |-> IsoString(1994, 1, 1)],
                               text, <<2024, 1, 2>>, w)
          IN  /\ d.fullName = "John Doe"
              /\ d.age = Num(30)
              /\ d.fileType = Pdf

\* both uploads are stored, the second one Ann Lee's PNG
C20_Witness ==
    /\ DOMAIN documents = {1, 2}
    /\ documents[2].fullName = "Ann Lee"
    /\ documents[2].fileType = Png
    /\ documents[2].fileName = "card.png"
    /\ documents[1].fullName = "John Doe"

\* s is a base-10 integer numeral: an optional sign and one or more digits
IsDecimalInteger(s) ==
    LET digits == IF Len(s) > 0 /\ s[1] \in {"-", "+"} THEN Tail(s) ELSE s
    IN  /\ Len(digits) > 0
        /\ \A i \in DOMAIN digits : IsDigit(digits[i])

\* C21: GET /api/document/{id} answers 400 "Invalid document ID" for every id
\* segment that is not a base-10 integer numeral ("abc", "12abc", "1.5",
\* "0x10") without consulting the store; only base-10 integers are looked up.
C21_NonIntegerIdRejected ==
    lastGet # undefined =>
        /\ lastGet.res.lookedUp <=> IsDecimalInteger(lastGet.segment)
        /\ ~IsDecimalInteger(lastGet.segment) =>
              /\ lastGet.res.status = 400
              /\ lastGet.res.body = [message |-> "Invalid document ID"]

\* C22: every upload request that fails at any step is answered exactly once
\* with a body holding a message: 400 for a missing file and for invalid form
\* data, 500 for an extraction failure and for any other exception, the 500
\* message being the exception's own message when it has one and "Failed to
\* process document" otherwise; no request is answered twice and none that has
\* failed is left unanswered.
C22_FailureAnsweredOnce ==
    /\ \A r \in Slots :
          /\ Len(res[r]) <= 1
          /\ pc[r] = "done" <=> Len(res[r]) = 1
          /\ local[r].error # undefined => pc[r] = "done"
          /\ (pc[r] = "done" /\ local[r].document = undefined) =>
                LET x == res[r][1]
                    file == input[r].file
                IN  /\ DOMAIN x = {"status", "body"}
                    /\ "message" \in DOMAIN x.body
                    /\ Len(x.body.message) > 0
                    /\ x.status =
                          IF file = undefined THEN 400
                          ELSE IF ~FileAccepted(file) THEN 500
                          ELSE IF BadFields(input[r].body) # {} THEN 400
                          ELSE 500
                    /\ (x.status = 500 /\ FileAccepted(file)) =>
                          /\ local[r].error # undefined
                          /\ x.body.message = ExtractionError(local[r].error.message).message
                    /\ (x.status = 500 /\ ~FileAccepted(file)) =>
                          x.body.message = MulterOutcome(file).error.message
    /\ UploadFailure([message |-> "disk full"]).body.message = "disk full"
    /\ UploadFailure([message |-> ""]).body.message = "Failed to process document"

\* an upload rejected by the upload middleware was answered once, 500, by the
\* global error middleware
C22_Witness ==
    /\ pc[1] = "done"
    /\ input[1].file # undefined
    /\ input[1].file.mimetype = Plain
    /\ res[1] = <<[status |-> 500,
                   body |-> [message |->
                       "Invalid file type. Only PDF and images (JPG, PNG) are allowed."]]>>

\* C23: in every reachable state the ids with a stored Document are exactly
\* 1..currentId - 1, the Document under key k has id k, and the number of stored
\* Documents is the number of createDocument calls made so far, which is the
\* number of uploads whose extraction has succeeded.
C23_StoreDense ==
    /\ DOMAIN documents = 1..(currentId - 1)
    /\ \A k \in DOMAIN documents : documents[k].id = k
    /\ Cardinality(DOMAIN documents) = Len(calls)
    /\ Len(calls) = Cardinality({r \in Slots : pc[r] \in {"created", "done"}
                                               /\ local[r].document # undefined})

\* two uploads are stored while the counter stands at 3
C23_Witness ==
    /\ currentId = 3
    /\ DOMAIN documents = {1, 2}
    /\ Len(calls) = 2
    /\ \E r \in Slots : pc[r] = "created"

\* C24: with several uploads in flight whose extractions finish in any order,
\* every upload that succeeds gets an id of its own, the ids follow the order
\* in which the extractions finish, and each response and stored Document holds
\* the form fields, file metadata and extracted text of its own request only.
C24_ConcurrentUploadsIsolated ==
    /\ \A k \in DOMAIN calls : calls[k].document.id = k
    /\ \A r \in Slots :
          local[r].document # undefined =>
              LET document == local[r].document
              IN  /\ document.id \in DOMAIN calls
                  /\ calls[document.id].seq = seq[r]
                  /\ documents[document.id] = document
                  /\ \A f \in AllFields : document[f] = input[r].body[f]
                  /\ document.fileName = input[r].file.originalname
                  /\ document.fileType = input[r].file.mimetype
                  /\ document.extractedText = local[r].extractedText
                  /\ \A q \in Slots \ {r} :
                        local[q].document # undefined =>
                            local[q].document.id # document.id
                  /\ pc[r] = "done" =>
                        /\ res[r][1].body.id = document.id
                        /\ res[r][1].body.fullName = document.fullName
                        /\ res[r][1].body.extractedText = local[r].extractedText
                        /\ res[r][1].body.fileName = input[r].file.originalname
                        /\ res[r][1].body.fileType = input[r].file.mimetype

\* the upload that arrived second finished extraction first and got id 1, the
\* first got id 2, each answered with its own text and file
C24_Witness ==
    /\ pc[1] = "done" /\ pc[2] = "done"
    /\ local[1].document # undefined /\ local[2].document # undefined
    /\ seq[1] = 1 /\ seq[2] = 2
    /\ res[2][1].body.id = 1
    /\ res[1][1].body.id = 2
    /\ input[1].file.originalname # input[2].file.originalname
    /\ res[1][1].body.fileName = input[1].file.originalname
    /\ res[1][1].body.extractedText # res[2][1].body.extractedText

\* a file the upload page may hold: an allowed type and at most 10 MiB
ClientFileValid(file) ==
    /\ file.type \in {Pdf, Jpeg, Jpg, Png}
    /\ file.size <= 10485760

\* C25: on the upload page the selected file is none or a file of type
\* application/pdf, image/jpeg, image/jpg or image/png of at most 10 * 1024 *
\* 1024 bytes; selecting a file that fails either check leaves the previous
\* selection unchanged; and an upload request is sent only with a selected file
\* and three form fields that pass uploadSchema.
C25_ClientSelectionValid ==
    /\ client.selectedFile # null => ClientFileValid(client.selectedFile)
    /\ client.lastSelect # undefined =>
          /\ ~ClientFileValid(client.lastSelect.file) =>
                client.lastSelect.after = client.lastSelect.before
          /\ ClientFileValid(client.lastSelect.file) =>
                client.lastSelect.after = client.lastSelect.file
    /\ client.request # undefined =>
          /\ client.request.file # null
          /\ ClientFileValid(client.request.file)
          /\ BadFields([f \in AllFields |-> client.request[f]]) = {}
          /\ uploadSchemaParse([f \in AllFields |-> client.request[f]]).success
    /\ client.isPending => client.request # undefined
    /\ (client.request = undefined) <=> (client.submits = 0)

\* with a PNG selected and one request already sent, an oversized PDF was
\* picked and the PNG stayed selected
C25_Witness ==
    /\ client.request # undefined
    /\ client.lastSelect # undefined
    /\ client.lastSelect.file = ClientFile(Pdf, 10485761, "scan")
    /\ client.lastSelect.before = ClientFile(Png, 10485760, "scan")
    /\ client.selectedFile = ClientFile(Png, 10485760, "scan")

====
